---- MODULE Spec2Model ----
(***************************************************************************)
(* AI Vault Coach backend: the successive versions of index.js, each an    *)
(* Express server relaying questions to a completion API and deriving      *)
(* nudges from vault rows.                                                 *)
(*                                                                         *)
(* A JavaScript string is a tuple of one-character strings; a fixed block  *)
(* of text (a template, a label) is one element of the tuple.  The value   *)
(* undefined of an absent body field is the tuple Undefined.               *)
(***************************************************************************)
EXTENDS Integers, Sequences, FiniteSets, TLC

VARIABLES variant, conversationHistory, reqs, vaultTable

vars == <<variant, conversationHistory, reqs, vaultTable>>

---------------------------------------------------------------------------
(* Bounds of the model *)

\* requests per behaviour of Spec (all versions, all ask endpoints)
MaxReq == 2
\* requests per behaviour of SpecRoll (the rolling-history versions)
MaxRollReq == 4
\* deltas an upstream stream delivers
MaxChunks == 2
\* rows of the vaults table
MaxVaults == 2
\* fragments of a question given to detectAdaptiveMode
MaxFrags == 2

---------------------------------------------------------------------------
(* JavaScript values *)

Undefined == <<"undefined">>

Truthy(v) == v # Undefined /\ v # <<>>

\* a || b
Or(a, b) == IF Truthy(a) THEN a ELSE b

\* destructuring default: { f = d } = body
Default(v, d) == IF v = Undefined THEN d ELSE v

WhiteSpace == {" ", "\n"}

RECURSIVE TrimStart(_)
TrimStart(s) ==
  IF s # <<>> /\ Head(s) \in WhiteSpace THEN TrimStart(Tail(s)) ELSE s

RECURSIVE TrimEnd(_)
TrimEnd(s) ==
  IF s # <<>> /\ s[Len(s)] \in WhiteSpace
  THEN TrimEnd(SubSeq(s, 1, Len(s) - 1))
  ELSE s

\* String.prototype.trim
Trim(s) == TrimEnd(TrimStart(s))

UpperChars == <<"A","B","C","D","E","F","G","H","I","J","K","L","M",
                "N","O","P","Q","R","S","T","U","V","W","X","Y","Z">>

LowerChars == <<"a","b","c","d","e","f","g","h","i","j","k","l","m",
                "n","o","p","q","r","s","t","u","v","w","x","y","z">>

ToLowerChar(c) ==
  IF \E i \in 1..Len(UpperChars) : UpperChars[i] = c
  THEN LowerChars[CHOOSE i \in 1..Len(UpperChars) : UpperChars[i] = c]
  ELSE c

\* String.prototype.toLowerCase
ToLowerCase(s) == [i \in 1..Len(s) |-> ToLowerChar(s[i])]

\* String.prototype.includes
Includes(s, sub) ==
  \E i \in 0..(Len(s) - Len(sub)) : SubSeq(s, i + 1, i + Len(sub)) = sub

\* Array.prototype.slice(-n)
SliceLast(a, n) == IF Len(a) > n THEN SubSeq(a, Len(a) - n + 1, Len(a)) ELSE a

RECURSIVE Concat(_)
Concat(ss) == IF ss = <<>> THEN <<>> ELSE Head(ss) \o Concat(Tail(ss))

---------------------------------------------------------------------------
(* Fixed texts *)

\* index.js:40, part_003:33
CoachOneLine == <<"[You are the AI Vault Coach.]">>

\* the trimmed multi-line coach template (part_004:46-62, part_000:38-54)
CoachTemplate == <<"[You are the AI Vault Coach - a supportive, practical financial guide ...]">>

\* part_003:106-108
StrictTemplate == <<"[You are a strict financial advisor who gives tough love ...]">>

\* part_003:110-112
FriendlyTemplate == <<"[You are a warm, supportive financial coach ...]">>

\* the template of part_001:48-66 around the interpolated vault type
VaultTemplate(vaultType) ==
  <<"[You are the AI Vault Coach ... asking about their \"]">> \o vaultType
    \o <<"[\" vault. ...]">>

MemoryLabel == <<"[Here is recent user context:]", "\n">>

NoReply == <<"[No reply generated.]">>

Rephrase == <<"[I'm not sure - try rephrasing your question.]">>

StreamError == <<"[Error streaming response.]">>

Digits == <<"0","1","2","3","4","5","6","7","8","9">>

Digit(i) == Digits[i + 1]

---------------------------------------------------------------------------
(* Messages of a chat completion *)

Msg(role, content) == [role |-> role, content |-> content]

\* the optional memory note: ...(memory ? [{system, label + memory}] : [])
MemoryNote(memory) ==
  IF Truthy(memory) THEN <<Msg("system", MemoryLabel \o memory)>> ELSE <<>>

\* [system, user] of the first versions
MessagesPlain(userMessage) ==
  <<Msg("system", CoachOneLine), Msg("user", userMessage)>>

\* MessagesMemory with the memory note after the user turn
MessagesMemoryNoteLast(systemPrompt, memory, question) ==
  <<Msg("system", systemPrompt), Msg("user", question)>> \o MemoryNote(memory)

\* [system, memory note?, user]
MessagesMemory(systemPrompt, memory, question) ==
  <<Msg("system", systemPrompt)>> \o MemoryNote(memory)
    \o <<Msg("user", question)>>

\* [system, ...conversationHistory]
MessagesRolling(systemPrompt, history) ==
  <<Msg("system", systemPrompt)>> \o history

\* the window of turns kept when the user turn is saved
UserWindow == 3

\* the window of turns kept when the reply is saved
ReplyWindow == 6

\* PushUser keeping one turn more
PushUserWindowFour(history, userMessage) ==
  LET h == Append(history, Msg("user", userMessage))
  IN IF Len(h) > UserWindow + 1 THEN SliceLast(h, UserWindow + 1) ELSE h

\* PushUser keeping one turn fewer
PushUserWindowTwo(history, userMessage) ==
  LET h == Append(history, Msg("user", userMessage))
  IN IF Len(h) > UserWindow - 1 THEN SliceLast(h, UserWindow - 1) ELSE h

\* conversationHistory.push(user); if (length > 3) slice(-3)
PushUser(history, userMessage) ==
  LET h == Append(history, Msg("user", userMessage))
  IN IF Len(h) > UserWindow THEN SliceLast(h, UserWindow) ELSE h

\* PushReply without its truncation
PushReplyUncapped(history, reply) == Append(history, Msg("assistant", reply))

\* conversationHistory.push(assistant); if (length > 6) slice(-6)
PushReply(history, reply) ==
  LET h == Append(history, Msg("assistant", reply))
  IN IF Len(h) > ReplyWindow THEN SliceLast(h, ReplyWindow) ELSE h

\* the system prompt of the rolling version with modes
ModePrompt(mode) ==
  IF mode = <<"Strict">> THEN StrictTemplate
  ELSE IF mode = <<"Friendly">> THEN FriendlyTemplate
  ELSE CoachTemplate

\* choices[0]?.message?.content || "No reply generated."
ReplyRaw(content) == Or(content, NoReply)

\* choices[0]?.message?.content?.trim() || "No reply generated."
ReplyTrimmed(content) ==
  Or(IF content = Undefined THEN Undefined ELSE Trim(content), NoReply)

\* choices[0]?.message?.content || "I'm not sure ..."
ReplyCoach(content) == Or(content, Rephrase)

\* ChunkContent trimming each fragment as the non-streaming reply is trimmed
ChunkContentTrimmed(delta) == IF delta = Undefined THEN <<>> ELSE Trim(delta)

\* chunk.choices?.[0]?.delta?.content || ""
ChunkContent(delta) == Or(delta, <<>>)

---------------------------------------------------------------------------
(* Adaptive personality (the /v1/coach version) *)

WarmFriendly == <<"Warm & Friendly">>
EnergeticMotivating == <<"Energetic & Motivating">>
ProfessionalDirect == <<"Professional & Direct">>
SoothingCalm == <<"Soothing & Calm">>
ExpertAdvisor == <<"Expert Financial Advisor">>

KwStressed == <<"s","t","r","e","s","s","e","d">>
KwOverwhelmed == <<"o","v","e","r","w","h","e","l","m","e","d">>
KwAnxious == <<"a","n","x","i","o","u","s">>
KwHype == <<"h","y","p","e">>
KwMotivation == <<"m","o","t","i","v","a","t","i","o","n">>
KwBoost == <<"b","o","o","s","t">>
KwDiscipline == <<"d","i","s","c","i","p","l","i","n","e">>
KwAccountable == <<"h","o","l","d"," ","m","e"," ","a","c","c","o","u","n","t","a","b","l","e">>
KwStrategy == <<"s","t","r","a","t","e","g","y">>
KwOptimize == <<"o","p","t","i","m","i","z","e">>
KwPlan == <<"p","l","a","n">>

\* detectAdaptiveMode scanning the question as typed, not lowercased
detectAdaptiveModeCaseSensitive(question, requestedMode) ==
  LET lower == question
  IN IF Includes(lower, KwStressed) \/ Includes(lower, KwOverwhelmed)
          \/ Includes(lower, KwAnxious)
     THEN SoothingCalm
     ELSE IF Includes(lower, KwHype) \/ Includes(lower, KwMotivation)
               \/ Includes(lower, KwBoost)
     THEN EnergeticMotivating
     ELSE IF Includes(lower, KwDiscipline) \/ Includes(lower, KwAccountable)
     THEN ProfessionalDirect
     ELSE IF Includes(lower, KwStrategy) \/ Includes(lower, KwOptimize)
               \/ Includes(lower, KwPlan)
     THEN ExpertAdvisor
     ELSE Or(requestedMode, WarmFriendly)

detectAdaptiveMode(question, requestedMode) ==
  LET lower == ToLowerCase(question)
  IN IF Includes(lower, KwStressed) \/ Includes(lower, KwOverwhelmed)
          \/ Includes(lower, KwAnxious)
     THEN SoothingCalm
     ELSE IF Includes(lower, KwHype) \/ Includes(lower, KwMotivation)
               \/ Includes(lower, KwBoost)
     THEN EnergeticMotivating
     ELSE IF Includes(lower, KwDiscipline) \/ Includes(lower, KwAccountable)
     THEN ProfessionalDirect
     ELSE IF Includes(lower, KwStrategy) \/ Includes(lower, KwOptimize)
               \/ Includes(lower, KwPlan)
     THEN ExpertAdvisor
     ELSE Or(requestedMode, WarmFriendly)

\* the keys of the personalities table of buildSystemPrompt
Personalities ==
  {WarmFriendly, EnergeticMotivating, ProfessionalDirect, SoothingCalm,
   ExpertAdvisor}

\* personalities[finalMode]: the clause, or undefined for a missing key
PersonalityClause(finalMode) ==
  IF finalMode \in Personalities
  THEN <<"[clause of ">> \o finalMode \o <<"]">>
  ELSE Undefined

buildSystemPrompt(finalMode, vaultContext) ==
  <<"[You are the AI Vault Coach for the DebtVault app. User Vault Status:]">>
    \o vaultContext \o <<"[Tone Mode:]">> \o finalMode
    \o <<"[Personality Rules:]">> \o PersonalityClause(finalMode)
    \o <<"[Rules: ...]">>

---------------------------------------------------------------------------
(* The vaults table of the store *)

CreditCard == <<"Credit Card">>
Rent == <<"Rent">>
Boat == <<"Boat">>

User1 == <<"u","1">>

\* SelectVaults without the archived filter
SelectVaultsWithArchived(table, user_id) ==
  SelectSeq(table, LAMBDA v : v.user_id = user_id)

\* .from("vaults").select(...).eq("user_id", user_id).eq("archived", false)
SelectVaults(table, user_id) ==
  SelectSeq(table, LAMBDA v : v.user_id = user_id /\ ~v.archived)

\* what the awaited query yields: a result with rows, a result with an
\* error (data is null), or a rejection
StoreOutcomes(table, user_id) ==
  { [kind |-> "ok", data |-> SelectVaults(table, user_id)],
    [kind |-> "error", data |-> <<>>],
    [kind |-> "throw", data |-> <<>>] }

\* Math.round((current_balance / target_amount) * 100), target_amount > 0:
\* the nearest integer, a half rounding up
RoundPercent(current_balance, target_amount) ==
  (200 * current_balance + target_amount) \div (2 * target_amount)

RECURSIVE NatStr(_)
NatStr(n) ==
  IF n < 10 THEN <<Digit(n)>> ELSE NatStr(n \div 10) \o <<Digit(n % 10)>>

\* a number interpolated in a template string
NumStr(n) == IF n < 0 THEN <<"-">> \o NatStr(-n) ELSE NatStr(n)

VaultLine(v) ==
  v.vault_type \o <<":", " ">>
    \o NumStr(RoundPercent(v.current_balance, v.target_amount))
    \o <<"[% saved, streak ]">> \o NumStr(v.streak) \o <<"[ days]">>

RECURSIVE JoinLines(_)
JoinLines(lines) ==
  IF lines = <<>> THEN <<>>
  ELSE IF Len(lines) = 1 THEN Head(lines)
  ELSE Head(lines) \o <<"\n">> \o JoinLines(Tail(lines))

NotLoggedIn == <<"[User not logged in.]">>

NoVaultsContext == <<"[User currently has no vaults.]">>

\* getVaultContext after its query returned: the error of the result is
\* not read, a null or empty data gives the no-vaults text
VaultContextOf(outcome) ==
  IF outcome.kind # "ok" \/ outcome.data = <<>>
  THEN NoVaultsContext
  ELSE JoinLines([i \in 1..Len(outcome.data) |-> VaultLine(outcome.data[i])])

---------------------------------------------------------------------------
(* Requests *)

\* a JavaScript number, or a value that compares false like NaN (undefined)
Num(n) == [nan |-> FALSE, n |-> n]
NotANumber == [nan |-> TRUE, n |-> 0]

\* req.body with no field
EmptyBody ==
  [question |-> Undefined, message |-> Undefined, memory |-> Undefined,
   systemPrompt |-> Undefined, mode |-> Undefined, vaultType |-> Undefined,
   coachMode |-> Undefined, user_id |-> Undefined,
   streak |-> NotANumber, vault_type |-> Undefined, progress |-> NotANumber]

\* a request entering handler h: nothing sent upstream, no response yet.
\* messages is what it sends to the completion API, calls and storeCalls
\* count its upstream calls, upstream is what its upstream call delivered,
\* failed tells that an upstream call of it threw or returned an error,
\* histAt is conversationHistory as the request found it and inFlightAt the
\* number of requests then awaiting an upstream call.
NewReq(h, body) ==
  [h |-> h, body |-> body, pc |-> "start", messages |-> <<>>,
   calls |-> 0, storeCalls |-> 0, status |-> 0, reply |-> Undefined,
   error |-> Undefined, finalMode |-> Undefined, written |-> <<>>,
   headersSent |-> FALSE, ended |-> FALSE, histAt |-> conversationHistory,
   inFlightAt |->
     Cardinality({j \in 1..Len(reqs) :
                    reqs[j].pc \in {"awaitStore", "awaitCompletion", "streaming"}}),
   upstream |-> <<>>, failed |-> FALSE, vault |-> <<>>,
   progress |-> NotANumber, category |-> "none"]

\* res.status(code).json({ error }) / res.status(code).send(text)
Fail(r, code, text) ==
  [r EXCEPT !.pc = "done", !.status = code, !.error = text,
            !.headersSent = TRUE, !.ended = TRUE]

\* res.json({ reply })
Reply(r, text) ==
  [r EXCEPT !.pc = "done", !.status = 200, !.reply = text,
            !.headersSent = TRUE, !.ended = TRUE]

\* openai.chat.completions.create({ messages }) is called and awaited
CallCompletion(r, messages) ==
  [r EXCEPT !.pc = "awaitCompletion", !.messages = messages,
            !.calls = r.calls + 1]

MissingMessage == <<"[Missing message input.]">>
MissingQuestion == <<"[Missing question.]">>
OpenAIFailed == <<"[OpenAI failed to respond.]">>
AIFailed == <<"[AI failed to respond.]">>

Normal == <<"Normal">>
General == <<"General">>

\* index.js: /ask with the one-line prompt
AskPlain(body) ==
  /\ variant = "index"
  /\ LET userMessage == Or(body.question, body.message)
         r == NewReq("plain", body)
     IN reqs' = Append(reqs,
          IF ~Truthy(userMessage) THEN Fail(r, 400, MissingMessage)
          ELSE CallCompletion(r, MessagesPlain(userMessage)))
  /\ UNCHANGED <<variant, conversationHistory, vaultTable>>

\* part_003 (first file): /ask reads req.body.message and checks nothing
AskUnchecked(body) ==
  /\ variant = "p003a"
  /\ LET userMessage == body.message
         r == NewReq("unchecked", body)
     IN reqs' = Append(reqs, CallCompletion(r, MessagesPlain(userMessage)))
  /\ UNCHANGED <<variant, conversationHistory, vaultTable>>

\* part_004: /ask with the rolling history
AskRolling(body) ==
  /\ variant = "p004"
  /\ LET userMessage == Or(body.question, body.message)
         r == NewReq("rolling", body)
         h == PushUser(conversationHistory, userMessage)
     IN IF ~Truthy(userMessage)
        THEN /\ reqs' = Append(reqs, Fail(r, 400, MissingMessage))
             /\ UNCHANGED conversationHistory
        ELSE /\ conversationHistory' = h
             /\ reqs' = Append(reqs,
                  CallCompletion(r, MessagesRolling(CoachTemplate, h)))
  /\ UNCHANGED <<variant, vaultTable>>

\* part_003 (second file): /ask with the rolling history and a mode
AskRollingMode(body) ==
  /\ variant = "p003b"
  /\ LET userMessage == Or(body.question, body.message)
         mode == Or(body.mode, Normal)
         r == NewReq("rolling", body)
         h == PushUser(conversationHistory, userMessage)
     IN IF ~Truthy(userMessage)
        THEN /\ reqs' = Append(reqs, Fail(r, 400, MissingMessage))
             /\ UNCHANGED conversationHistory
        ELSE /\ conversationHistory' = h
             /\ reqs' = Append(reqs,
                  CallCompletion(r, MessagesRolling(ModePrompt(mode), h)))
  /\ UNCHANGED <<variant, vaultTable>>

\* part_000: /ask with the memory note and the caller's system prompt
AskMemory(body) ==
  /\ variant = "p000"
  /\ LET question == body.question
         memory == Default(body.memory, <<>>)
         systemPrompt == Or(body.systemPrompt, CoachTemplate)
         r == NewReq("memory", body)
     IN reqs' = Append(reqs,
          IF ~Truthy(question) THEN Fail(r, 400, MissingQuestion)
          ELSE CallCompletion(r,
                 MessagesMemory(systemPrompt, memory, question)))
  /\ UNCHANGED <<variant, conversationHistory, vaultTable>>

\* part_001, part_002 (second file): /ask with the vault type in the prompt
AskVault(body) ==
  /\ variant \in {"p001", "p002b"}
  /\ LET question == body.question
         memory == Default(body.memory, <<>>)
         vaultType == Default(body.vaultType, General)
         systemPrompt == Or(body.systemPrompt, VaultTemplate(vaultType))
         r == NewReq("memory", body)
     IN reqs' = Append(reqs,
          IF ~Truthy(question) THEN Fail(r, 400, MissingQuestion)
          ELSE CallCompletion(r,
                 MessagesMemory(systemPrompt, memory, question)))
  /\ UNCHANGED <<variant, conversationHistory, vaultTable>>

\* /ask-stream of part_000, part_001, part_002 (second file)
AskStream(body) ==
  /\ variant \in {"p000", "p001", "p002b"}
  /\ LET question == body.question
         systemPrompt == Default(body.systemPrompt, <<>>)
         memory == Default(body.memory, <<>>)
         r == NewReq("stream", body)
     IN reqs' = Append(reqs,
          IF ~Truthy(question) THEN Fail(r, 400, MissingQuestion)
          ELSE CallCompletion(r,
                 MessagesMemory(systemPrompt, memory, question)))
  /\ UNCHANGED <<variant, conversationHistory, vaultTable>>

\* /v1/coach/ask after getVaultContext returned vaultContext
CoachCompose(r, vaultContext) ==
  LET requestedMode == Default(r.body.coachMode, WarmFriendly)
      finalMode == detectAdaptiveMode(r.body.question, requestedMode)
      systemPrompt == buildSystemPrompt(finalMode, vaultContext)
  IN CallCompletion([r EXCEPT !.finalMode = finalMode],
       <<Msg("system", systemPrompt), Msg("user", r.body.question)>>)

\* part_002 (first file): /v1/coach/ask up to its first pending call
CoachAsk(body) ==
  /\ variant = "p002a"
  /\ LET r == NewReq("coach", body)
     IN reqs' = Append(reqs,
          IF ~Truthy(body.question) THEN Fail(r, 400, MissingQuestion)
          ELSE IF ~Truthy(body.user_id) THEN CoachCompose(r, NotLoggedIn)
          ELSE [r EXCEPT !.pc = "awaitStore", !.storeCalls = 1])
  /\ UNCHANGED <<variant, conversationHistory, vaultTable>>

\* the query of getVaultContext returns
CoachStoreReturns(i, outcome) ==
  /\ reqs[i].h = "coach" /\ reqs[i].pc = "awaitStore"
  /\ LET r == [reqs[i] EXCEPT !.upstream = <<outcome.kind>>,
                              !.failed = outcome.kind # "ok"]
     IN reqs' = [reqs EXCEPT ![i] =
          IF outcome.kind = "throw" THEN Fail(r, 500, AIFailed)
          ELSE CoachCompose(r, VaultContextOf(outcome))]
  /\ UNCHANGED <<variant, conversationHistory, vaultTable>>

\* the reply text each non-streaming handler makes of the returned content
ReplyOf(h, content) ==
  IF h \in {"plain", "unchecked"} THEN ReplyRaw(content)
  ELSE IF h = "coach" THEN ReplyCoach(content)
  ELSE ReplyTrimmed(content)

\* the awaited completion returns: the reply is made, saved in the rolling
\* history where there is one, and sent
CompletionResolves(i, content) ==
  /\ reqs[i].pc = "awaitCompletion" /\ reqs[i].h # "stream"
  /\ LET reply == ReplyOf(reqs[i].h, content)
     IN /\ reqs' = [reqs EXCEPT ![i] =
             Reply([@ EXCEPT !.upstream = <<content>>], reply)]
        /\ conversationHistory' =
             IF reqs[i].h = "rolling"
             THEN PushReply(conversationHistory, reply)
             ELSE conversationHistory
  /\ UNCHANGED <<variant, vaultTable>>

\* the awaited completion call rejects: the catch block answers 500
CompletionRejects(i) ==
  /\ reqs[i].pc = "awaitCompletion"
  /\ reqs' = [reqs EXCEPT ![i] =
       Fail([@ EXCEPT !.failed = TRUE], 500,
            IF @.h = "stream" THEN StreamError
            ELSE IF @.h = "coach" THEN AIFailed ELSE OpenAIFailed)]
  /\ UNCHANGED <<variant, conversationHistory, vaultTable>>

---------------------------------------------------------------------------
(* The streaming relay *)

\* create({ stream: true }) resolved: the two headers are set, not yet sent
StreamOpens(i) ==
  /\ reqs[i].h = "stream" /\ reqs[i].pc = "awaitCompletion"
  /\ reqs' = [reqs EXCEPT ![i].pc = "streaming"]
  /\ UNCHANGED <<variant, conversationHistory, vaultTable>>

\* one turn of the for-await loop: res.write(delta content or "")
StreamChunk(i, delta) ==
  /\ reqs[i].pc = "streaming"
  /\ Len(reqs[i].upstream) < MaxChunks
  /\ reqs' = [reqs EXCEPT ![i] =
       [@ EXCEPT !.upstream = Append(@, delta),
                 !.written = Append(@, ChunkContent(delta)),
                 !.headersSent = TRUE, !.status = 200]]
  /\ UNCHANGED <<variant, conversationHistory, vaultTable>>

\* the upstream stream closes: res.end()
StreamEnds(i) ==
  /\ reqs[i].pc = "streaming"
  /\ reqs' = [reqs EXCEPT ![i] =
       [@ EXCEPT !.pc = "done", !.status = 200, !.headersSent = TRUE,
                 !.ended = TRUE]]
  /\ UNCHANGED <<variant, conversationHistory, vaultTable>>

\* the process ends on an unhandled rejection: every open connection is
\* cut where it stands
ProcessExit(rs) ==
  [j \in 1..Len(rs) |->
     IF rs[j].pc \in {"done", "aborted"} THEN rs[j]
     ELSE [rs[j] EXCEPT !.pc = "aborted"]]

\* the upstream stream throws inside the loop: the catch block calls
\* res.status(500).send(text).  Before the first write this answers 500;
\* after it the headers are out, send throws inside the catch block, res.end
\* is never called and the handler's promise rejects unhandled: the runtime
\* either only warns (the response stays open) or ends the process (the
\* connection is cut, as a framework handling the rejection would cut it).
StreamFails(i) ==
  /\ reqs[i].pc = "streaming"
  /\ LET rs == [reqs EXCEPT ![i].failed = TRUE]
     IN IF ~reqs[i].headersSent
        THEN reqs' = [rs EXCEPT ![i] = Fail(@, 500, StreamError)]
        ELSE \/ reqs' = [rs EXCEPT ![i].pc = "hung"]
             \/ reqs' = ProcessExit(rs)
  /\ UNCHANGED <<variant, conversationHistory, vaultTable>>

---------------------------------------------------------------------------
(* Nudges *)

\* emojiMap[vault_type] || default of part_001
EmojiOf(vault_type) ==
  IF vault_type = Rent THEN <<"[house]">>
  ELSE IF vault_type = CreditCard THEN <<"[card]">>
  ELSE IF vault_type = <<"Emergency">> THEN <<"[siren]">>
  ELSE IF vault_type = <<"Bills">> THEN <<"[receipt]">>
  ELSE IF vault_type = <<"Car">> THEN <<"[car]">>
  ELSE IF vault_type = <<"Custom">> THEN <<"[target]">>
  ELSE IF vault_type = General THEN <<"[money bag]">>
  ELSE <<"[package]">>

\* emojiMap[vault_type] || default of /v1/coach/nudge
CoachEmojiOf(vault_type) ==
  IF vault_type = CreditCard THEN <<"[card]">>
  ELSE IF vault_type = <<"Emergency">> THEN <<"[siren]">>
  ELSE IF vault_type = <<"Bills">> THEN <<"[page]">>
  ELSE IF vault_type = <<"Car">> THEN <<"[car]">>
  ELSE IF vault_type = <<"Custom">> THEN <<"[puzzle]">>
  ELSE <<"[bank]">>

\* comparisons of JavaScript numbers: false on NaN and undefined
Lt(a, k) == ~a.nan /\ a.n < k
Ge(a, k) == ~a.nan /\ a.n >= k

StreakGoal == 5

RECURSIVE FindStreak(_)
\* vaults.find(v => v.streak >= 5)
FindStreak(vaults) ==
  IF vaults = <<>> THEN <<>>
  ELSE IF Head(vaults).streak >= StreakGoal THEN <<Head(vaults)>>
  ELSE FindStreak(Tail(vaults))

RECURSIVE FindCreditCard(_)
\* vaults.find(v => v.vault_type === "Credit Card")
FindCreditCard(vaults) ==
  IF vaults = <<>> THEN <<>>
  ELSE IF Head(vaults).vault_type = CreditCard THEN <<Head(vaults)>>
  ELSE FindCreditCard(Tail(vaults))

\* PickVault looking for a Credit Card vault first
PickVaultCardFirst(vaults) ==
  IF FindCreditCard(vaults) # <<>> THEN FindCreditCard(vaults)[1]
  ELSE IF FindStreak(vaults) # <<>> THEN FindStreak(vaults)[1]
  ELSE vaults[1]

\* find(streak) || find(Credit Card) || vaults[0]
PickVault(vaults) ==
  IF FindStreak(vaults) # <<>> THEN FindStreak(vaults)[1]
  ELSE IF FindCreditCard(vaults) # <<>> THEN FindCreditCard(vaults)[1]
  ELSE vaults[1]

\* the if-chain of /get-nudge
NudgeCategory(progress, streak, vault_type) ==
  IF Lt(progress, 15) THEN "kickstart"
  ELSE IF Ge(streak, StreakGoal) THEN "streak"
  ELSE IF Ge(progress, 90) THEN "near"
  ELSE IF vault_type = CreditCard /\ Ge(progress, 50) THEN "halfway"
  ELSE "growth"

\* CoachNudgeCategory testing near-completion before the streak
CoachNudgeCategoryNearFirst(progress, streak, vault_type) ==
  LET nudge == "growth"
  IN IF Lt(progress, 15) THEN "kickstart"
     ELSE IF Ge(progress, 90) THEN "near"
     ELSE IF Ge(streak, StreakGoal) THEN "streak"
     ELSE IF vault_type = CreditCard /\ Ge(progress, 50) THEN "halfway"
     ELSE nudge

\* /v1/coach/nudge: the growth text first, then the chain that replaces it
CoachNudgeCategory(progress, streak, vault_type) ==
  LET nudge == "growth"
  IN IF Lt(progress, 15) THEN "kickstart"
     ELSE IF Ge(streak, StreakGoal) THEN "streak"
     ELSE IF Ge(progress, 90) THEN "near"
     ELSE IF vault_type = CreditCard /\ Ge(progress, 50) THEN "halfway"
     ELSE nudge

\* the text of a nudge: the interpolated values between its fixed parts
NudgeText(category, emoji, vault_type, streak, progress) ==
  IF category = "kickstart"
  THEN <<"[kickstart your ]">> \o emoji \o <<" ">> \o vault_type
         \o <<"[ vault - even $1 builds momentum.]">>
  ELSE IF category = "streak"
  THEN <<"[You're on a ]">> \o NumStr(streak.n) \o <<"[-day streak in your ]">>
         \o emoji \o <<" ">> \o vault_type \o <<"[ vault]">>
  ELSE IF category = "near"
  THEN <<"[You're ]">> \o NumStr(100 - progress.n) \o <<"[% away from your ]">>
         \o emoji \o <<" ">> \o vault_type \o <<"[ vault]">>
  ELSE IF category = "halfway"
  THEN <<"[Halfway to your ]">> \o emoji \o <<" ">> \o CreditCard
         \o <<"[ vault]">>
  ELSE <<"[Your ]">> \o emoji \o <<" ">> \o vault_type
         \o <<"[ vault is growing.]">>

NoVaultsNudge == <<"[You don't have any vaults yet. Create one and start saving today.]">>

MissingUserId == <<"[Missing user_id.]">>

\* res.json({ nudge })
Nudge(r, category, text) ==
  [Reply(r, text) EXCEPT !.category = category]

\* part_001: /get-nudge up to its query
GetNudge(body) ==
  /\ variant = "p001"
  /\ LET r == NewReq("nudge", body)
     IN reqs' = Append(reqs,
          IF ~Truthy(body.user_id) THEN Fail(r, 400, MissingUserId)
          ELSE [r EXCEPT !.pc = "awaitStore", !.storeCalls = 1])
  /\ UNCHANGED <<variant, conversationHistory, vaultTable>>

\* the nudge made of the rows the query returned
NudgeOfVaults(r, vaults) ==
  LET vault == PickVault(vaults)
      progress == Num(RoundPercent(vault.current_balance, vault.target_amount))
      streak == Num(vault.streak)
      category == NudgeCategory(progress, streak, vault.vault_type)
  IN [Nudge(r, category,
        NudgeText(category, EmojiOf(vault.vault_type), vault.vault_type,
                  streak, progress))
      EXCEPT !.vault = <<vault>>, !.progress = progress]

\* the query of /get-nudge returns
NudgeStoreReturns(i, outcome) ==
  /\ reqs[i].h = "nudge" /\ reqs[i].pc = "awaitStore"
  /\ LET r == [reqs[i] EXCEPT !.upstream = <<outcome.kind>>,
                              !.failed = outcome.kind # "ok"]
     IN reqs' = [reqs EXCEPT ![i] =
          IF outcome.kind = "throw"
          THEN Fail(r, 500, <<"[Something went wrong generating the nudge.]">>)
          ELSE IF outcome.kind = "error"
          THEN Fail(r, 500, <<"[Failed to fetch vaults.]">>)
          ELSE IF outcome.data = <<>> THEN Nudge(r, "novaults", NoVaultsNudge)
          ELSE NudgeOfVaults(r, outcome.data)]
  /\ UNCHANGED <<variant, conversationHistory, vaultTable>>

DailyNudges ==
  << <<"[You're only one small deposit away ...]">>,
     <<"[Small steps add up ...]">>,
     <<"[Missing a day is okay ...]">>,
     <<"[Momentum beats motivation ...]">>,
     <<"[Consistency > big deposits ...]">> >>

\* part_002 (second file): /get-nudge answers one of five fixed messages
RandomNudge(body, random) ==
  /\ variant = "p002b"
  /\ LET r == NewReq("random", body)
     IN reqs' = Append(reqs,
          IF ~Truthy(body.user_id) THEN Fail(r, 400, MissingUserId)
          ELSE Nudge(r, "daily", DailyNudges[random + 1]))
  /\ UNCHANGED <<variant, conversationHistory, vaultTable>>

\* part_002 (first file): /v1/coach/nudge on the caller's fields
CoachNudge(body) ==
  /\ variant = "p002a"
  /\ LET r == NewReq("coachnudge", body)
         category ==
           CoachNudgeCategory(body.progress, body.streak, body.vault_type)
     IN reqs' = Append(reqs,
          [Nudge(r, category,
             NudgeText(category, CoachEmojiOf(body.vault_type),
                       body.vault_type, body.streak, body.progress))
           EXCEPT !.progress = body.progress])
  /\ UNCHANGED <<variant, conversationHistory, vaultTable>>

---------------------------------------------------------------------------
(* Inputs *)

Variants == {"index", "p003a", "p003b", "p004", "p000", "p001", "p002a", "p002b"}

\* the versions that keep conversationHistory across requests
RollingVariants == {"p003b", "p004"}

\* the texts of the request with number id
QText(id) == <<"q", Digit(id)>>
MText(id) == <<"m", Digit(id)>>
RText(id) == <<"r", Digit(id)>>

Mem == <<"m","e","m">>
CustomPrompt == <<"[custom system prompt]">>

\* bodies of /ask of the versions reading question || message
PlainBodies(id) ==
  { [EmptyBody EXCEPT !.question = q, !.message = m] :
      q \in {Undefined, <<>>, QText(id)}, m \in {Undefined, MText(id)} }
  \cup { [EmptyBody EXCEPT !.question = QText(id), !.memory = Mem] }

\* bodies of /ask with a mode
ModeBodies(id) ==
  PlainBodies(id)
  \cup { [EmptyBody EXCEPT !.question = QText(id), !.mode = m] :
           m \in {<<"Strict">>, <<"Friendly">>} }

\* bodies of /ask and /ask-stream reading question, memory, systemPrompt
MemoryBodies(id) ==
  { [EmptyBody EXCEPT !.question = q, !.memory = mem] :
      q \in {Undefined, <<>>, QText(id)}, mem \in {Undefined, <<>>, Mem} }
  \cup { [EmptyBody EXCEPT !.question = QText(id), !.memory = mem,
                            !.systemPrompt = sp] :
           mem \in {Undefined, Mem}, sp \in {<<>>, CustomPrompt} }
  \cup { [EmptyBody EXCEPT !.message = MText(id)] }

\* bodies of /ask reading vaultType as well
VaultBodies(id) ==
  MemoryBodies(id)
  \cup { [EmptyBody EXCEPT !.question = QText(id), !.vaultType = Rent] }

\* bodies of /v1/coach/ask
CoachBodies(id) ==
  { [EmptyBody EXCEPT !.question = q, !.user_id = u] :
      q \in {Undefined, <<>>, QText(id), KwPlan \o QText(id)},
      u \in {Undefined, User1} }
  \cup { [EmptyBody EXCEPT !.question = QText(id), !.coachMode = c] :
           c \in {<<>>, ProfessionalDirect, <<"Pirate">>} }
  \cup { [EmptyBody EXCEPT !.message = MText(id)] }

\* what the completion API may return as choices[0].message.content
Contents(id) == {Undefined, <<" ">>, <<" ">> \o RText(id) \o <<"\n">>}

\* what a chunk of the upstream stream may carry as delta.content
Deltas == {Undefined, <<" ">>, <<"o","k">>}

Vault(vault_type, current_balance, streak, archived) ==
  [user_id |-> User1, vault_type |-> vault_type,
   current_balance |-> current_balance, target_amount |-> 8,
   streak |-> streak, archived |-> archived]

\* tables of the store behind /v1/coach/ask
AskTables ==
  { <<>>, <<Vault(Rent, 4, 0, TRUE)>>,
    <<Vault(Rent, 1, 2, FALSE), Vault(CreditCard, 7, 6, FALSE)>> }

---------------------------------------------------------------------------
(* Spec: every version, every ask endpoint *)

Init ==
  /\ variant \in Variants
  /\ conversationHistory = <<>>
  /\ reqs = <<>>
  /\ vaultTable \in (IF variant = "p002a" THEN AskTables ELSE {<<>>})

\* requests of a behaviour: the handlers of the versions without
\* conversationHistory share no state, one request shows all they do
ReqLimit == IF variant \in RollingVariants THEN MaxReq ELSE 1

NextId == Len(reqs) + 1

CanArrive == Len(reqs) < ReqLimit

Next ==
  \/ CanArrive /\ \E body \in PlainBodies(NextId) : AskPlain(body)
  \/ CanArrive /\ \E body \in PlainBodies(NextId) : AskUnchecked(body)
  \/ CanArrive /\ \E body \in PlainBodies(NextId) : AskRolling(body)
  \/ CanArrive /\ \E body \in ModeBodies(NextId) : AskRollingMode(body)
  \/ CanArrive /\ \E body \in MemoryBodies(NextId) : AskMemory(body)
  \/ CanArrive /\ \E body \in VaultBodies(NextId) : AskVault(body)
  \/ CanArrive /\ \E body \in MemoryBodies(NextId) : AskStream(body)
  \/ CanArrive /\ \E body \in CoachBodies(NextId) : CoachAsk(body)
  \/ \E i \in 1..Len(reqs) :
       \E content \in Contents(i) : CompletionResolves(i, content)
  \/ \E i \in 1..Len(reqs) : CompletionRejects(i)
  \/ \E i \in 1..Len(reqs) :
       \E outcome \in StoreOutcomes(vaultTable, reqs[i].body.user_id) :
         CoachStoreReturns(i, outcome)
  \/ \E i \in 1..Len(reqs) : StreamOpens(i)
  \/ \E i \in 1..Len(reqs), delta \in Deltas : StreamChunk(i, delta)
  \/ \E i \in 1..Len(reqs) : StreamEnds(i)
  \/ \E i \in 1..Len(reqs) : StreamFails(i)

Spec == Init /\ [][Next]_vars

\* what the event loop runs once an awaited upstream call settles
Respond ==
  \E i \in 1..Len(reqs) :
    \/ \E content \in Contents(i) : CompletionResolves(i, content)
    \/ CompletionRejects(i)
    \/ \E outcome \in StoreOutcomes(vaultTable, reqs[i].body.user_id) :
         CoachStoreReturns(i, outcome)
    \/ StreamOpens(i)
    \/ \E delta \in Deltas : StreamChunk(i, delta)
    \/ StreamEnds(i)
    \/ StreamFails(i)

\* Spec with every settled upstream call eventually resumed
SpecLive == Init /\ [][Next]_vars /\ WF_vars(Respond)

---------------------------------------------------------------------------
(* SpecRoll: the rolling-history versions under many requests *)

RollBodies(id) ==
  { [EmptyBody EXCEPT !.question = q] : q \in {Undefined, QText(id)} }

RollContents(id) == { <<" ">> \o RText(id) }

InitRoll ==
  /\ variant \in RollingVariants
  /\ conversationHistory = <<>>
  /\ reqs = <<>>
  /\ vaultTable = <<>>

CanArriveRoll == Len(reqs) < MaxRollReq

NextRoll ==
  \/ CanArriveRoll /\ \E body \in RollBodies(NextId) : AskRolling(body)
  \/ CanArriveRoll /\ \E body \in RollBodies(NextId) : AskRollingMode(body)
  \/ \E i \in 1..Len(reqs) :
       \E content \in RollContents(i) : CompletionResolves(i, content)
  \/ \E i \in 1..Len(reqs) : CompletionRejects(i)

SpecRoll == InitRoll /\ [][NextRoll]_vars

---------------------------------------------------------------------------
(* SpecNudge: the nudge endpoints *)

User2 == <<"u","2">>
User3 == <<"u","3">>

VaultRows ==
  { Vault(t, b, s, a) :
      t \in {CreditCard, Rent}, b \in {1, 4, 8, 9}, s \in {0, 5},
      a \in BOOLEAN }
  \cup { [Vault(Boat, 7, 6, FALSE) EXCEPT !.user_id = User2] }

RECURSIVE SeqsUpTo(_, _)
\* the sequences over S of length at most n
SeqsUpTo(S, n) ==
  IF n = 0 THEN {<<>>}
  ELSE LET shorter == SeqsUpTo(S, n - 1)
       IN shorter \cup {Append(t, x) : t \in shorter, x \in S}

NudgeTables == SeqsUpTo(VaultRows, MaxVaults)

NudgeBodies ==
  { [EmptyBody EXCEPT !.user_id = u] : u \in {Undefined, <<>>, User1, User2, User3} }

ExplicitBodies ==
  { [EmptyBody EXCEPT !.progress = p, !.streak = s, !.vault_type = t] :
      p \in {NotANumber} \cup {Num(n) : n \in {0, 14, 15, 49, 50, 89, 90, 100, 113}},
      s \in {NotANumber} \cup {Num(n) : n \in {0, 4, 5, 9}},
      t \in {Undefined, CreditCard, Rent, Boat} }

InitNudge ==
  /\ variant \in {"p001", "p002a", "p002b"}
  /\ conversationHistory = <<>>
  /\ reqs = <<>>
  /\ vaultTable \in (IF variant = "p001" THEN NudgeTables ELSE {<<>>})

NextNudge ==
  \/ reqs = <<>> /\ \E body \in NudgeBodies : GetNudge(body)
  \/ \E i \in 1..Len(reqs) :
       \E outcome \in StoreOutcomes(vaultTable, reqs[i].body.user_id) :
         NudgeStoreReturns(i, outcome)
  \/ reqs = <<>> /\ \E body \in NudgeBodies :
       \E random \in 0..(Len(DailyNudges) - 1) : RandomNudge(body, random)
  \/ reqs = <<>> /\ \E body \in ExplicitBodies : CoachNudge(body)

SpecNudge == InitNudge /\ [][NextNudge]_vars

---------------------------------------------------------------------------
(* SpecMode: detectAdaptiveMode on questions made of fragments *)

Fragments ==
  { <<"S","t","r","e","s","s","e","d">>, KwOverwhelmed,
    <<"A","N","X","I","O","U","S">>, KwHype, <<"M","o","t","i","v","a","t","i","o","n">>,
    KwBoost, KwDiscipline,
    <<"H","o","l","d"," ","m","e"," ","a","c","c","o","u","n","t","a","b","l","e">>,
    KwStrategy, <<"O","p","t","i","m","i","z","e">>, KwPlan,
    <<"p","l","a">>, <<"n","e","t">>, <<"s","t","r","e","s","s">>,
    <<" ">>, <<"s","a","v","e">> }

Questions == { Concat(fs) : fs \in SeqsUpTo(Fragments, MaxFrags) } \ {<<>>}

QuestionBodies ==
  { [EmptyBody EXCEPT !.question = q, !.coachMode = c] :
      q \in Questions,
      c \in {Undefined, <<>>, ProfessionalDirect, <<"Pirate">>} }

InitMode ==
  /\ variant = "p002a"
  /\ conversationHistory = <<>>
  /\ reqs = <<>>
  /\ vaultTable = <<>>

NextMode ==
  \/ reqs = <<>> /\ \E body \in QuestionBodies : CoachAsk(body)
  \/ \E i \in 1..Len(reqs) :
       \E content \in RollContents(i) : CompletionResolves(i, content)

SpecMode == InitMode /\ [][NextMode]_vars

---------------------------------------------------------------------------
(* Properties of the ask endpoints *)

Min(a, b) == IF a < b THEN a ELSE b

\* the request carries neither a question nor a legacy message
NoInput(body) == ~Truthy(body.question) /\ ~Truthy(body.message)

\* C1: on every ask endpoint of every version, a request whose question
\* (or legacy message) is absent or empty is answered 400 and makes no call
\* to the completion API or to the store.
C1_EmptyQuestionRejected ==
  \A i \in 1..Len(reqs) :
    (reqs[i].h \in {"plain", "unchecked", "rolling", "memory", "stream", "coach"}
       /\ NoInput(reqs[i].body))
    => (reqs[i].status = 400 /\ reqs[i].calls = 0 /\ reqs[i].storeCalls = 0)

\* C2: in the rolling-history versions conversationHistory holds at most 6
\* entries in every state between handler steps, whatever the requests did
\* and however they overlapped.
C2_HistoryAtMostSix == Len(conversationHistory) <= 6

\* four overlapping requests all answered: the seventh entry was cut
C2_Witness ==
  /\ Len(conversationHistory) = 6
  /\ Len(reqs) >= 4
  /\ \A i \in 1..4 : reqs[i].status = 200
  /\ \E i \in 1..4 : reqs[i].inFlightAt >= 3

\* no request arrived while another awaited the completion API
Sequential == \A i \in 1..Len(reqs) : reqs[i].inFlightAt = 0

\* the user turn and the assistant reply of request i
ExchangeTurns(i) ==
  << Msg("user", Or(reqs[i].body.question, reqs[i].body.message)),
     Msg("assistant", reqs[i].reply) >>

\* C3: after n >= 3 sequential successful exchanges the retained history is
\* exactly the user turn and reply of each of the last 3 exchanges, in order.
C3_LastThreeExchangesRetained ==
  LET n == Len(reqs)
  IN (n >= 3 /\ Sequential /\ \A i \in 1..n : reqs[i].status = 200)
     => conversationHistory =
          ExchangeTurns(n - 2) \o ExchangeTurns(n - 1) \o ExchangeTurns(n)

\* the messages of r are the system instruction, the last min(h, k) turns
\* of the history r found, and r's own user turn
SendsPriorTurns(r, k) ==
  /\ r.messages # <<>>
  /\ r.messages[1].role = "system"
  /\ r.messages =
       <<r.messages[1]>> \o SliceLast(r.histAt, Min(Len(r.histAt), k))
         \o <<Msg("user", Or(r.body.question, r.body.message))>>

OwnQuestion(r) ==
  IF r.h = "unchecked" THEN r.body.message
  ELSE IF r.h \in {"plain", "rolling"} THEN Or(r.body.question, r.body.message)
  ELSE r.body.question

\* the request supplied a non-empty memory string to a handler taking one
SuppliesMemory(r) == r.h \in {"memory", "stream"} /\ Truthy(r.body.memory)

StartsWith(s, prefix) ==
  Len(s) >= Len(prefix) /\ SubSeq(s, 1, Len(prefix)) = prefix

\* system instruction, memory note iff supplied, turns of the history the
\* request found, and last its own user turn
WellOrdered(r) ==
  LET m == r.messages
      n == Len(m)
      sys == IF SuppliesMemory(r) THEN 2 ELSE 1
  IN /\ n > sys
     /\ m[1].role = "system"
     /\ ~StartsWith(m[1].content, MemoryLabel)
     /\ SuppliesMemory(r) => m[2] = Msg("system", MemoryLabel \o r.body.memory)
     /\ \A j \in (sys + 1)..n : m[j].role # "system"
     /\ SubSeq(m, sys + 1, n - 1) = SliceLast(r.histAt, n - 1 - sys)
     /\ n - 1 - sys <= Len(r.histAt)
     /\ m[n] = Msg("user", OwnQuestion(r))

---------------------------------------------------------------------------
(* Properties of detectAdaptiveMode *)

\* keyword kw occurs in question at some position, letter case ignored
Occurs(question, kw) ==
  \E p \in 0..(Len(question) - Len(kw)) :
    \A j \in 1..Len(kw) : ToLowerChar(question[p + j]) = kw[j]

\* the keyword sets in priority order, each with its mode
ModePriority ==
  << [keywords |-> {KwStressed, KwOverwhelmed, KwAnxious}, mode |-> SoothingCalm],
     [keywords |-> {KwHype, KwMotivation, KwBoost}, mode |-> EnergeticMotivating],
     [keywords |-> {KwDiscipline, KwAccountable}, mode |-> ProfessionalDirect],
     [keywords |-> {KwStrategy, KwOptimize, KwPlan}, mode |-> ExpertAdvisor] >>

\* the sets of ModePriority with a keyword in the question
Matching(question) ==
  {k \in 1..Len(ModePriority) :
     \E kw \in ModePriority[k].keywords : Occurs(question, kw)}

FirstMatching(question) ==
  CHOOSE k \in Matching(question) : \A l \in Matching(question) : k <= l

\* C6: the first keyword set, in priority order, with a keyword in the
\* lowercased question decides finalMode whatever mode was requested and
\* whatever lower sets match; with no match it is the requested mode, or
\* "Warm & Friendly" when none was requested.
C6_ModeByPriority ==
  \A i \in 1..Len(reqs) :
    (reqs[i].h = "coach" /\ reqs[i].calls > 0)
    => LET question == reqs[i].body.question
           requested == reqs[i].body.coachMode
       IN reqs[i].finalMode =
            IF Matching(question) # {}
            THEN ModePriority[FirstMatching(question)].mode
            ELSE IF requested \in {Undefined, <<>>} THEN WarmFriendly
            ELSE requested

\* a capitalised keyword of the first set wins over a keyword of the last
\* set and over the requested mode
C6_Witness ==
  \E i \in 1..Len(reqs) :
    /\ reqs[i].body.question = <<"S","t","r","e","s","s","e","d">> \o KwPlan
    /\ reqs[i].body.coachMode = ProfessionalDirect
    /\ reqs[i].finalMode = SoothingCalm

---------------------------------------------------------------------------
(* Properties of the nudge endpoints *)

\* the ordered first-match threshold rule
RuleCategory(progress, streak, vault_type) ==
  CASE Lt(progress, 15) -> "kickstart"
    [] ~Lt(progress, 15) /\ Ge(streak, 5) -> "streak"
    [] ~Lt(progress, 15) /\ ~Ge(streak, 5) /\ Ge(progress, 90) -> "near"
    [] ~Lt(progress, 15) /\ ~Ge(streak, 5) /\ ~Ge(progress, 90)
         /\ vault_type = CreditCard /\ Ge(progress, 50) -> "halfway"
    [] OTHER -> "growth"

\* p is current_balance / target_amount * 100 rounded to the nearest
\* integer, a half rounding up
IsRoundedPercent(p, v) ==
  /\ (2 * p - 1) * v.target_amount <= 200 * v.current_balance
  /\ 200 * v.current_balance < (2 * p + 1) * v.target_amount

\* C7: the record-backed /get-nudge, with progress the rounded percentage
\* of the selected vault, and the explicit-field /v1/coach/nudge both choose
\* the category by the same ordered rule: progress < 15 kickstart, else
\* streak >= 5 streak, else progress >= 90 near-completion, else Credit Card
\* with progress >= 50 halfway, else growth.
C7_SameThresholdRule ==
  \A i \in 1..Len(reqs) :
    /\ (reqs[i].h = "nudge" /\ reqs[i].vault # <<>>)
       => LET v == reqs[i].vault[1]
          IN /\ ~reqs[i].progress.nan
             /\ IsRoundedPercent(reqs[i].progress.n, v)
             /\ reqs[i].category =
                  RuleCategory(reqs[i].progress, Num(v.streak), v.vault_type)
    /\ reqs[i].h = "coachnudge"
       => reqs[i].category =
            RuleCategory(reqs[i].body.progress, reqs[i].body.streak,
                         reqs[i].body.vault_type)

\* a streak of 5 or more at progress 90 or more: the streak message
C7_Witness ==
  \E i \in 1..Len(reqs) :
    /\ reqs[i].h \in {"nudge", "coachnudge"} /\ reqs[i].status = 200
    /\ Ge(reqs[i].progress, 90)
    /\ reqs[i].category = "streak"

\* the non-archived vaults of a user, in store order
UserVaults(user_id) ==
  LET keep(v) == v.user_id = user_id /\ v.archived = FALSE
  IN SelectSeq(vaultTable, keep)

\* C8: a store-backed nudge request whose user has no non-archived vault
\* (none at all, or only archived ones) gets, when the query succeeds, a
\* normal response with the fixed create-a-vault message; no vault is
\* selected and no threshold rule applied.
C8_NoVaultsMessage ==
  \A i \in 1..Len(reqs) :
    (reqs[i].h = "nudge" /\ reqs[i].upstream = <<"ok">>
       /\ UserVaults(reqs[i].body.user_id) = <<>>)
    => /\ reqs[i].status = 200
       /\ reqs[i].reply = NoVaultsNudge
       /\ reqs[i].error = Undefined
       /\ reqs[i].vault = <<>>
       /\ reqs[i].category = "novaults"

\* the user has vaults, every one archived
C8_Witness ==
  \E i \in 1..Len(reqs) :
    /\ reqs[i].h = "nudge" /\ reqs[i].upstream = <<"ok">>
    /\ \E k \in 1..Len(vaultTable) :
         vaultTable[k].user_id = reqs[i].body.user_id
    /\ UserVaults(reqs[i].body.user_id) = <<>>
    /\ reqs[i].reply = NoVaultsNudge

\* the index of the vault the priority rule names
PriorityIndex(vaults) ==
  LET streaks == {k \in 1..Len(vaults) : vaults[k].streak >= 5}
      cards == {k \in 1..Len(vaults) : vaults[k].vault_type = CreditCard}
      first(S) == CHOOSE k \in S : \A l \in S : k <= l
  IN IF streaks # {} THEN first(streaks)
     ELSE IF cards # {} THEN first(cards)
     ELSE 1

\* C9: with a non-empty vault list /get-nudge uses exactly one vault: the
\* first in store order with streak >= 5, else the first Credit Card vault,
\* else the first vault.
C9_VaultByPriority ==
  \A i \in 1..Len(reqs) :
    LET vaults == UserVaults(reqs[i].body.user_id)
    IN (reqs[i].h = "nudge" /\ reqs[i].upstream = <<"ok">> /\ vaults # <<>>)
       => /\ reqs[i].vault = <<vaults[PriorityIndex(vaults)]>>
          /\ reqs[i].status = 200
          /\ Includes(reqs[i].reply, reqs[i].vault[1].vault_type)

\* a Credit Card vault comes first, a vault with a streak of 5 second: the
\* second is used
C9_Witness ==
  \E i \in 1..Len(reqs) :
    LET vaults == UserVaults(reqs[i].body.user_id)
    IN /\ reqs[i].h = "nudge" /\ reqs[i].upstream = <<"ok">>
       /\ Len(vaults) >= 2
       /\ vaults[1].vault_type = CreditCard /\ vaults[1].streak < 5
       /\ vaults[2].vault_type = Rent /\ vaults[2].streak >= 5
       /\ reqs[i].vault = <<vaults[2]>>

---------------------------------------------------------------------------
(* Properties of the streaming relay *)

\* the upstream's full text: its fragments concatenated, a delta without
\* content counting as the empty fragment
FullText(r) ==
  Concat([k \in 1..Len(r.upstream) |->
            IF r.upstream[k] = Undefined THEN <<>> ELSE r.upstream[k]])

\* s without its leading and trailing whitespace
Stripped(s) ==
  LET inked == {k \in 1..Len(s) : s[k] \notin WhiteSpace}
  IN IF inked = {} THEN <<>>
     ELSE SubSeq(s, CHOOSE k \in inked : \A l \in inked : k <= l,
                    CHOOSE k \in inked : \A l \in inked : k >= l)

\* the stream was relayed to its end
Streamed(r) == r.h = "stream" /\ r.pc = "done" /\ r.status = 200

\* one write per delta, in arrival order
OneWritePerDelta(r) ==
  /\ Len(r.written) = Len(r.upstream)
  /\ \A k \in 1..Len(r.upstream) :
       r.written[k] = (IF r.upstream[k] = Undefined THEN <<>> ELSE r.upstream[k])

\* C10 as stated: /ask-stream writes one fragment per delta in arrival
\* order and the concatenation of what it writes equals the reply of the
\* non-streaming /ask for the same full text.
C10_StreamEqualsReply ==
  \A i \in 1..Len(reqs) :
    Streamed(reqs[i])
    => /\ OneWritePerDelta(reqs[i])
       /\ Concat(reqs[i].written) = ReplyOf("memory", FullText(reqs[i]))

\* C10 amended: /ask-stream writes one fragment per delta in arrival order
\* and the concatenation of what it writes is the upstream's full text; the
\* non-streaming /ask replies with that text trimmed of surrounding
\* whitespace, or with "No reply generated." when nothing is left.
C10_StreamEqualsUntrimmedText ==
  \A i \in 1..Len(reqs) :
    Streamed(reqs[i])
    => LET full == FullText(reqs[i])
       IN /\ OneWritePerDelta(reqs[i])
          /\ Concat(reqs[i].written) = full
          /\ ReplyOf("memory", full) =
               (IF Stripped(full) = <<>> THEN NoReply ELSE Stripped(full))

\* a stream of two fragments whose text starts with a space
C10_Witness ==
  \E i \in 1..Len(reqs) :
    /\ Streamed(reqs[i])
    /\ reqs[i].upstream = << <<" ">>, <<"o","k">> >>
    /\ reqs[i].written = << <<" ">>, <<"o","k">> >>
    /\ ReplyOf("memory", FullText(reqs[i])) = <<"o","k">>

\* the stream of request i failed after a fragment was written
FailedAfterWrite(i) ==
  /\ i <= Len(reqs)
  /\ reqs[i].h = "stream" /\ reqs[i].failed
  /\ reqs[i].written # <<>>

\* the response of request i is over: ended by the handler or cut with the
\* connection, its body the fragments written and no error text
Terminated(i) ==
  /\ i <= Len(reqs)
  /\ reqs[i].ended \/ reqs[i].pc = "aborted"
  /\ reqs[i].error = Undefined
  /\ Len(reqs[i].written) = Len(reqs[i].upstream)

\* C11: when the upstream stream fails after /ask-stream wrote at least one
\* fragment, the response is eventually terminated (the connection closed)
\* with the fragments written so far as its whole body and nothing appended.
C11_FailedStreamTerminated ==
  \A i \in 1..MaxReq : [](FailedAfterWrite(i) => <>Terminated(i))

---------------------------------------------------------------------------
(* Properties of upstream failures *)

\* C12: on the non-streaming endpoints (/ask, /v1/coach/ask, /get-nudge) a
\* request whose completion call or store query failed (threw or returned
\* an error result) ends with status 500 and an error text, and never with
\* a reply; it makes no further upstream call.
C12_UpstreamFailureGives500 ==
  \A i \in 1..Len(reqs) :
    (reqs[i].h # "stream" /\ reqs[i].failed)
    => /\ reqs[i].pc = "done"
       /\ reqs[i].status = 500
       /\ reqs[i].error # Undefined
       /\ reqs[i].reply = Undefined

---------------------------------------------------------------------------
(* Properties of the system instruction *)

\* the system instruction the version in use synthesizes for a request
\* without a system prompt of its caller
TemplateOf(r) ==
  IF variant = "p000" THEN CoachTemplate
  ELSE VaultTemplate(IF r.body.vaultType = Undefined THEN General
                     ELSE r.body.vaultType)

\* C13: on every ask endpoint taking systemPrompt (/ask and /ask-stream) the
\* first message sent upstream is a system message holding the caller's
\* system prompt verbatim when one is supplied, and otherwise the non-empty
\* instruction synthesized from the fixed coach template (an empty string
\* supplied as the prompt may count either way).
C13_SystemPromptOrTemplate ==
  \A i \in 1..Len(reqs) :
    (reqs[i].h \in {"memory", "stream"} /\ reqs[i].calls > 0)
    => LET supplied == reqs[i].body.systemPrompt
           first == reqs[i].messages[1]
       IN /\ first.role = "system"
          /\ first.content =
               IF supplied \notin {Undefined, <<>>} THEN supplied
               ELSE IF supplied = <<>> /\ first.content = <<>> THEN <<>>
               ELSE TemplateOf(reqs[i])
          /\ supplied = Undefined => first.content # <<>>

---------------------------------------------------------------------------
(* Properties of the shared history *)

\* entry k of conversationHistory is the reply of request i
ReplyAt(k, i) ==
  /\ reqs[i].h = "rolling" /\ reqs[i].status = 200
  /\ conversationHistory[k] = Msg("assistant", reqs[i].reply)

\* entry k is immediately preceded by the user turn of request i
FollowsOwnQuestion(k, i) ==
  k > 1 /\ conversationHistory[k - 1] = ExchangeTurns(i)[1]

\* no rolling request was answered 500
AllSuccessful == \A i \in 1..Len(reqs) : reqs[i].status # 500

\* C14: with strictly sequential successful requests on the rolling
\* history every assistant reply retained is immediately preceded by the
\* user turn it answers; requests in flight together can break this (the
\* state of C14_Witness is reachable).
C14_SequentialRepliesFollowQuestions ==
  (Sequential /\ AllSuccessful)
  => \A k \in 1..Len(conversationHistory) :
       conversationHistory[k].role = "assistant"
       => \E i \in 1..Len(reqs) : ReplyAt(k, i) /\ FollowsOwnQuestion(k, i)

\* requests were in flight together, and the history holds a reply that
\* follows another caller's turn while its own question was cut away
C14_Witness ==
  /\ \E i \in 1..Len(reqs) : reqs[i].inFlightAt >= 1
  /\ \E k \in 1..Len(conversationHistory), i \in 1..Len(reqs) :
       /\ ReplyAt(k, i)
       /\ ~FollowsOwnQuestion(k, i)
       /\ k > 1 /\ conversationHistory[k - 1].role = "user"
       /\ \A l \in 1..Len(conversationHistory) :
            conversationHistory[l] # ExchangeTurns(i)[1]

\* request i is the latest rolling request and met no request in flight:
\* only it has touched conversationHistory since it arrived
AloneSinceArrival(i) ==
  i = Len(reqs) /\ reqs[i].h = "rolling" /\ reqs[i].inFlightAt = 0

\* C15: in the rolling-history /ask the new user turn enters the retained
\* history only once the exchange completes, together with the reply: while
\* the completion call is pending, and after it failed (500),
\* conversationHistory is exactly as the request found it.
C15_FailedRequestLeavesHistory ==
  \A i \in 1..Len(reqs) :
    (AloneSinceArrival(i)
       /\ (reqs[i].pc = "awaitCompletion" \/ reqs[i].status = 500))
    => conversationHistory = reqs[i].histAt

---------------------------------------------------------------------------
(* Properties of the personality *)

\* C16: for every question and every coachMode of the caller, the finalMode
\* that /v1/coach/ask passes to buildSystemPrompt and returns is one of the
\* five personality labels, so the clause looked up for the system prompt
\* is defined and the prompt holds it.
C16_FinalModeIsPersonality ==
  \A i \in 1..Len(reqs) :
    (reqs[i].h = "coach" /\ reqs[i].calls > 0)
    => /\ reqs[i].finalMode \in Personalities
       /\ PersonalityClause(reqs[i].finalMode) # Undefined
       /\ ~Includes(reqs[i].messages[1].content, Undefined)

---------------------------------------------------------------------------
(* Properties of the near-completion message *)

\* C17: whenever a nudge endpoint gives the near-completion message, the
\* remaining percentage it interpolates, 100 - progress, lies between 0 and
\* 10, for every vault with current_balance >= 0 and target_amount > 0 and
\* for every progress supplied by the caller.
C17_RemainingWithinTen ==
  \A i \in 1..Len(reqs) :
    (reqs[i].h \in {"nudge", "coachnudge"} /\ reqs[i].category = "near")
    => LET remaining == 100 - reqs[i].progress.n
       IN /\ Includes(reqs[i].reply, <<"[You're ]">> \o NumStr(remaining))
          /\ remaining \in 0..10

====
